---- MODULE Spec2Model ----
(***************************************************************************)
(* A model of the SCPI signal adapters of ophyd/scpi.py and of the device  *)
(* generator of ophyd/ee_instruments.py.                                   *)
(*                                                                         *)
(* Nine specifications share the module; each drives one part of the code  *)
(* and leaves the variables of the other parts at their initial values:    *)
(*   Spec         ScpiSignalFileSave (stage, trigger, read, get_array,     *)
(*                collect_asset_docs, unstage)                             *)
(*   SpecStaging  the same calls, with what a caller observes of one       *)
(*                staging (save_func calls, datum ids, dropped documents)  *)
(*   SpecStat     ScpiSignalFileSave together with StatCalculator          *)
(*   SpecTrig     ScpiSignalBase.trigger with a status monitor             *)
(*   SpecTrigFair SpecTrig with the triggering thread weakly fair          *)
(*   SpecSet      ScpiSignal.set, with and without a delay                 *)
(*   SpecGen      generate_ophyd_obj                                       *)
(*   SpecDesc     the constructors and describe of the signal classes      *)
(*   SpecFilt     apply_filter, with Python's float arithmetic             *)
(*                                                                         *)
(* Python values are tagged tuples, so that None, a string and an array    *)
(* are never equal; a Python string is a sequence of tokens, so that       *)
(* str.format and os.path.join are concatenations and not identities.      *)
(***************************************************************************)
EXTENDS Integers, Sequences, FiniteSets, TLC

\* ------------------------------------------------------------------ bounds
\* Spec: number of stagings (new_uid() calls) explored
MaxStages == 2
\* Spec: number of values drawn from one staging's _datum_counter
MaxCount == 2
\* SpecStat: the same two bounds
MaxStatStages == 1
MaxStatCount == 2
\* SpecStaging: stagings and datum counts explored
MaxLifeStages == 2
MaxLifeCount == 2
\* SpecFilt: arrays of 0..MaxSamples samples
MaxSamples == 20
\* SpecTrig: the instrument reports a status in 0..MaxStatus
MaxStatus == 2
\* SpecTrig: failed polls recorded in the event list of one call
MaxPolls == 2
\* SpecSet: the delays a user configures are 0..MaxDelay time units
MaxDelay == 2
\* SpecSet: the clock runs to MaxTime
MaxTime == 4
\* SpecGen: number of commands in scpi_obj._cmds
MaxCmds == 2

\* ------------------------------------------------------------ Python values
PyNone == <<"None">>
PyStr(s) == <<"str", s>>
PyArr(a) == <<"ndarray", a>>
PyCount(n) == <<"count", n>>
PyInt(n) == <<"int", n>>
PyDict(d) == <<"dict", d>>
PyBool(b) == <<"bool", b>>
PyTuple(t) == <<"tuple", t>>

\* the truth value Python gives a value in  if x:
Truthy(x) ==
    CASE x[1] = "None" -> FALSE
      [] x[1] = "bool" -> x[2]
      [] x[1] = "int" -> x[2] # 0
      [] OTHER -> TRUE

\* str(n) for the small integers the model formats
Digits == <<"0", "1", "2", "3", "4", "5", "6", "7", "8", "9">>
IntStr(n) == <<Digits[n + 1]>>

\* os.path.join(a, b) on token strings (posix): an absolute b replaces a
PathJoin(a, b) ==
    IF b # <<>> /\ Head(b) = "/" THEN b
    ELSE IF a = <<>> THEN b
    ELSE IF a[Len(a)] = "/" THEN a \o b
    ELSE a \o <<"/">> \o b

\* '{}_{}_{}.{}'.format(stem, idx, cnt, ext)
FormatName(stem, idx, cnt, ext) ==
    stem \o <<"_">> \o IntStr(idx) \o <<"_">> \o IntStr(cnt) \o <<".">> \o ext

\* ------------------------------------------- the ScpiSignalFileSave instance
\* constructor arguments of the modelled instance (save_path given, the
\* defaults save_spec='NPY_SEQ', save_ext='npy', status_monitor=None)
save_path == <<"/", "data">>
save_ext == <<"npy">>
save_spec == "NPY_SEQ"
\* composite_name = scpi_cl.name + '_' + cmd_name
signal_name == "dmm_burst_volt"
\* Signal.timestamp: never updated by this code
signal_timestamp == "ts0"
\* values the instrument may return for the command
Arrays == {<<1, 2>>, <<4>>}
\* the statistics of BasicStatistics.func_list with integer results
StatFuncs == {"sum", "amin", "amax", "len"}

VARIABLES
    \* ---- ScpiSignalFileSave fields
    resource_uid,      \* _resource_uid: PyNone or PyStr(uid)
    datum_counter,     \* _datum_counter: PyNone or PyCount(next value)
    asset_docs_cache,  \* _asset_docs_cache: deque of <<kind, doc>>
    file_stem,         \* _file_stem
    path_stem,         \* _path_stem
    result,            \* _result: dict name -> reading
    value,             \* _value: PyNone or the last stored raw array
    uid_next,          \* how many uids new_uid() has minted
    save_calls,        \* the calls of save_func made by the last trigger
    \* ---- StatCalculator
    img,               \* _img: PyNone or "get_array"
    stat_out,          \* last value computed by func(), with its stat_func
    \* ---- observations of the caller
    op,                \* the last operation and how it ended
    yielded_resources, \* uids of the resource documents yielded so far
    last_yield,        \* the documents of the last collection
    pending,           \* documents appended since the last collection/unstage
    acquired,          \* raw value read by the last successful trigger
    \* ---- observations of one staging (followed in SpecStaging only)
    attempts,          \* triggers since the last stage that called save_func
    ok_count,          \* triggers since the last stage that succeeded
    staging_datums,    \* datum_ids appended to the cache since the last stage
    discarded,         \* documents dropped from the cache by unstage
    \* ---- apply_filter
    fpc,               \* where the call of apply_filter stands
    f_tau,             \* tau, as the ratio <<p, q>> of the literal p/q
    f_rate,            \* sample_rate, an integral value
    f_order,           \* the order of the filter num, denom were made for
    f_len,             \* len(arr)
    f_out,             \* what final_stat_function was given, or the error
    \* ---- ScpiSignalBase.trigger with a status monitor
    status_monitor,    \* _status_monitor: PyNone or PyDict(the monitor)
    tpc,               \* where the call of trigger stands
    tidx,              \* trig_func: how many commands of trig_name are set
    events,            \* instrument and framework calls made by this call
    status_now,        \* the status the instrument would report now
    status_seen,       \* the status the last poll read
    \* ---- ScpiSignal.set
    delay,             \* self.delay: PyNone or PyInt(time units)
    spc,               \* where the caller of set stands
    bpc,               \* where the thread sleep_and_finish stands
    set_value,         \* the value passed to set
    st_done,           \* whether the Status st of the call is finished
    ret,               \* the return value of self._set
    writes,            \* the instrument writes issued for the call
    clock,             \* time
    t_write,           \* the time at which self._set returned
    done_at_return,    \* whether st was finished when set returned it
    call_delay,        \* self.delay when set was called
    sleep_for,         \* the argument of the thread's time.sleep
    \* ---- generate_ophyd_obj
    gpc,               \* where the call of generate_ophyd_obj stands
    obj_type,          \* the class of scpi_obj
    components,        \* the dictionary components
    done_cmds,         \* the commands of scpi_obj._cmds already iterated over
    \* ---- construction and describe of a signal
    sig_cls,           \* the class of the signal object, "none" before any
    sig,               \* the attributes the object has: name -> value
    dop,               \* the last call on the object and its arguments
    described          \* how the last call ended and what it returned

fsVars == <<resource_uid, datum_counter, asset_docs_cache, file_stem, path_stem,
            result, value, uid_next, save_calls, img, stat_out,
            op, yielded_resources, last_yield, pending, acquired>>
trigVars == <<status_monitor, tpc, tidx, events, status_now, status_seen>>
setVars == <<delay, spc, bpc, set_value, st_done, ret, writes, clock, t_write, done_at_return,
             call_delay, sleep_for>>
genVars == <<gpc, obj_type, components, done_cmds>>
descVars == <<sig_cls, sig, dop, described>>
obsVars == <<attempts, ok_count, staging_datums, discarded>>
filtVars == <<fpc, f_tau, f_rate, f_order, f_len, f_out>>
vars == <<fsVars, trigVars, setVars, genVars, descVars, obsVars, filtVars>>

\* ------------------------------------------------------------------ new_uid
\* new_uid() returns a fresh uuid4 string; the n-th call returns the n-th token
UidTokens == <<"uidA", "uidB", "uidC", "uidD", "uidE", "uidF">>
new_uid(n) == <<UidTokens[n]>>

\* ---------------------------------------------------------- asset documents
\* stage: the resource document
ResourceDoc(uid) ==
    [spec |-> save_spec, root |-> save_path, resource_path |-> uid,
     resource_kwargs |-> {}, path_semantics |-> "posix", uid |-> uid]

\* trigger: datum_id = '{}_{}_{}.{}'.format(_resource_uid, idx, datum_cnt, save_ext)
DatumId(uid, idx, cnt) == FormatName(uid, idx, cnt, save_ext)

SaveFileNameNoStem(pstem, idx, cnt) == FormatName(<<>>, idx, cnt, save_ext)
\* trigger: the file name handed to save_func
SaveFileName(pstem, idx, cnt) == FormatName(pstem, idx, cnt, save_ext)

\* trigger: the datum document
DatumDoc(uid, idx, cnt) ==
    [resource |-> uid, datum_kwargs |-> [index |-> idx],
     datum_id |-> DatumId(uid, idx, cnt)]

StageAppendLost(cache, uid) == cache
\* stage: self._asset_docs_cache.append(('resource', resource))
StageAppend(cache, uid) == Append(cache, <<"resource", ResourceDoc(uid)>>)

\* trigger: self._asset_docs_cache.append(('datum', datum))
TriggerAppend(cache, uid, idx, cnt) == Append(cache, <<"datum", DatumDoc(uid, idx, cnt)>>)

ReadingValueRaw(datum_id, raw) == PyArr(raw)
\* trigger: reading['value'] = datum_id
ReadingValue(datum_id, raw) == PyStr(datum_id)

StoredValueAfterReplace(datum_id, raw) == PyStr(datum_id)
\* trigger: self._value = reading['value'], before the value is replaced
StoredValue(datum_id, raw) == PyArr(raw)

NewCounterKept(old) == IF old = PyNone THEN PyCount(0) ELSE old
\* stage: self._datum_counter = itertools.count(), whatever it was before
NewCounter(old) == PyCount(0)

AdvanceStuck(cnt) == PyCount(cnt)
\* trigger: the counter after datum_cnt = next(self._datum_counter)
Advance(cnt) == PyCount(cnt + 1)

ResultClearSkipped(r) == r
\* trigger, unstage: self._result.clear()
ResultClear(r) == {}

UnstageClearSkipped(cache) == cache
\* unstage: self._asset_docs_cache.clear()
UnstageClear(cache) == <<>>

\* collect_asset_docs: items = list(self._asset_docs_cache)
CollectItems(cache) == [i \in 1..Len(cache) |-> cache[i]]

CollectNoClear(cache) == cache
\* collect_asset_docs: self._asset_docs_cache.clear()
CollectClear(cache) == <<>>

\* the uids of the resource documents among items
ResourceUids(items) ==
    {items[i][2].uid : i \in {j \in DOMAIN items : items[j][1] = "resource"}}

\* ---------------------------------------------------------------- reading
\* ScpiSignalBase.read(): {self.name: {'value': self.value, 'timestamp': ...}},
\* where self.value is what the instrument returns for the command
BaseRead(raw) == {<<signal_name, [value |-> PyArr(raw), timestamp |-> signal_timestamp]>>}

\* ScpiSignalFileSave.read()
read == result

\* ScpiSignalFileSave.get_array()
get_array == value

\* ------------------------------------------------------------------- Init
InitFS ==
    /\ resource_uid = PyNone
    /\ datum_counter = PyNone
    /\ asset_docs_cache = <<>>
    /\ file_stem = PyNone
    /\ path_stem = PyNone
    /\ result = {}
    /\ value = PyNone
    /\ uid_next = 0
    /\ save_calls = <<>>
    /\ img = PyNone
    /\ stat_out = <<"none", PyNone>>
    /\ op = <<"init", "ok">>
    /\ yielded_resources = {}
    /\ last_yield = <<>>
    /\ pending = <<>>
    /\ acquired = PyNone
    /\ attempts = 0
    /\ ok_count = 0
    /\ staging_datums = <<>>
    /\ discarded = {}

\* ------------------------------------------------- ScpiSignalFileSave.stage
stage ==
    /\ LET uid == new_uid(uid_next + 1)
       IN /\ uid_next' = uid_next + 1
          /\ resource_uid' = PyStr(uid)
          /\ file_stem' = PyStr(uid)
          /\ path_stem' = PyStr(PathJoin(save_path, uid))
          /\ datum_counter' = NewCounter(datum_counter)
          /\ asset_docs_cache' = StageAppend(asset_docs_cache, uid)
          /\ pending' = Append(pending, <<"resource", ResourceDoc(uid)>>)
    /\ op' = <<"stage", "ok">>
    /\ UNCHANGED <<result, value, save_calls, img, stat_out, yielded_resources, last_yield, acquired>>

\* ----------------------------------------------- ScpiSignalFileSave.trigger
\* The instance has no status monitor, so super().trigger() only runs the
\* framework's trigger.  get_ok: the instrument answers the read of
\* self.value; save_ok: save_func returns.  An exception ends the call where
\* it is raised and leaves what was assigned before it.
trigger ==
    \E get_ok \in BOOLEAN, raw \in Arrays, save_ok \in BOOLEAN :
        LET staged == datum_counter # PyNone
            outcome == IF ~get_ok THEN "get_error"
                       ELSE IF ~staged THEN "type_error"
                       ELSE IF ~save_ok THEN "save_error"
                       ELSE "ok"
            idx == 0
            cnt == datum_counter[2]
            uid == resource_uid[2]
            datum_id == DatumId(uid, idx, cnt)
            fname == SaveFileName(path_stem[2], idx, cnt)
            reading == CHOOSE r \in {kv[2] : kv \in BaseRead(raw)} : TRUE
        IN /\ op' = <<"trigger", outcome>>
           /\ datum_counter' =
                 IF outcome \in {"save_error", "ok"} THEN Advance(cnt)
                 ELSE datum_counter
           /\ save_calls' =
                 IF outcome \in {"save_error", "ok"}
                 THEN <<[path |-> fname, data |-> PyArr(raw), returned |-> save_ok]>>
                 ELSE <<>>
           /\ IF outcome = "ok"
              THEN /\ asset_docs_cache' = TriggerAppend(asset_docs_cache, uid, idx, cnt)
                   /\ pending' = Append(pending, <<"datum", DatumDoc(uid, idx, cnt)>>)
                   /\ value' = StoredValue(datum_id, raw)
                   /\ result' = {<<signal_name,
                                   [reading EXCEPT !.value = ReadingValue(datum_id, raw)]>>}
                   /\ acquired' = PyArr(raw)
              ELSE /\ result' = ResultClear(result)
                   /\ UNCHANGED <<asset_docs_cache, pending, value, acquired>>
           /\ UNCHANGED <<resource_uid, file_stem, path_stem, uid_next, img, stat_out,
                          yielded_resources, last_yield>>

\* ------------------------------------ ScpiSignalFileSave.collect_asset_docs
\* the call together with the caller's loop over the generator it returns
collect_asset_docs ==
    LET items == CollectItems(asset_docs_cache)
    IN /\ asset_docs_cache' = CollectClear(asset_docs_cache)
       /\ yielded_resources' = yielded_resources \cup ResourceUids(items)
       /\ last_yield' = items
       /\ pending' = <<>>
       /\ op' = <<"collect", "ok">>
       /\ UNCHANGED <<resource_uid, datum_counter, file_stem, path_stem, result, value,
                      uid_next, save_calls, img, stat_out, acquired>>

\* ----------------------------------------------- ScpiSignalFileSave.unstage
unstage ==
    /\ resource_uid' = PyNone
    /\ datum_counter' = PyNone
    /\ asset_docs_cache' = UnstageClear(asset_docs_cache)
    /\ file_stem' = PyNone
    /\ path_stem' = PyNone
    /\ result' = ResultClear(result)
    /\ pending' = <<>>
    /\ op' = <<"unstage", "ok">>
    /\ UNCHANGED <<value, uid_next, save_calls, img, stat_out, yielded_resources, last_yield, acquired>>

\* ----------------------------------------------------------- StatCalculator
RECURSIVE SeqSum(_)
SeqSum(a) == IF a = <<>> THEN 0 ELSE Head(a) + SeqSum(Tail(a))
SeqMin(a) == CHOOSE x \in {a[i] : i \in DOMAIN a} : \A j \in DOMAIN a : x <= a[j]
SeqMax(a) == CHOOSE x \in {a[i] : i \in DOMAIN a} : \A j \in DOMAIN a : x >= a[j]

\* stat_func(m) for the functions of BasicStatistics.func_list
\* (numpy's reductions reject a str; len counts its characters)
stat_func(f, m) ==
    IF f = "len" THEN <<"int", Len(m[2])>>
    ELSE IF m[1] # "ndarray" THEN <<"TypeError">>
    ELSE CASE f = "sum" -> <<"int", SeqSum(m[2])>>
           [] f = "amin" -> <<"int", SeqMin(m[2])>>
           [] f = "amax" -> <<"int", SeqMax(m[2])>>

\* StatCalculator.__init__: func()
func(f) ==
    IF img # PyNone
    THEN LET m == get_array
         IN IF m = PyNone THEN PyNone ELSE stat_func(f, m)
    ELSE PyNone

\* BasicStatistics.__init__: ._img = array_source.get_array
attach_array_source ==
    /\ img = PyNone
    /\ img' = <<"get_array">>
    /\ UNCHANGED <<resource_uid, datum_counter, asset_docs_cache, file_stem, path_stem,
                   result, value, uid_next, save_calls, stat_out, op, yielded_resources, last_yield,
                   pending, acquired>>

\* an evaluation of a StatCalculator's func
stat_eval ==
    \E f \in StatFuncs :
        /\ stat_out' = <<f, func(f)>>
        /\ UNCHANGED <<resource_uid, datum_counter, asset_docs_cache, file_stem, path_stem,
                       result, value, uid_next, save_calls, img, op, yielded_resources, last_yield,
                       pending, acquired>>

\* the bounds of the exploration
StagesBelow(n) == uid_next < n
CountBelow(n) == IF datum_counter = PyNone THEN TRUE ELSE datum_counter[2] < n

\* the other parts of the module stay as constructed
FrameFS == UNCHANGED <<trigVars, setVars, genVars, descVars, obsVars, filtVars>>

NextFS ==
    \/ StagesBelow(MaxStages) /\ stage /\ FrameFS
    \/ CountBelow(MaxCount) /\ trigger /\ FrameFS
    \/ collect_asset_docs /\ FrameFS
    \/ unstage /\ FrameFS

\* what an observer of the calls records about the current staging
Observe ==
    /\ attempts' =
          IF op'[1] \in {"stage", "unstage"} THEN 0
          ELSE IF op'[1] = "trigger" THEN attempts + Len(save_calls')
          ELSE attempts
    /\ ok_count' =
          IF op'[1] \in {"stage", "unstage"} THEN 0
          ELSE IF op' = <<"trigger", "ok">> THEN ok_count + 1
          ELSE ok_count
    /\ staging_datums' =
          IF op'[1] \in {"stage", "unstage"} THEN <<>>
          ELSE IF op'[1] = "trigger" /\ Len(asset_docs_cache') > Len(asset_docs_cache)
          THEN staging_datums \o
                  [i \in 1..(Len(asset_docs_cache') - Len(asset_docs_cache)) |->
                      asset_docs_cache'[Len(asset_docs_cache) + i][2].datum_id]
          ELSE staging_datums
    /\ discarded' =
          IF op'[1] = "unstage"
          THEN discarded \cup {asset_docs_cache[i] : i \in DOMAIN asset_docs_cache}
          ELSE discarded

FrameStaging == UNCHANGED <<trigVars, setVars, genVars, descVars, filtVars>>

NextStaging ==
    \/ StagesBelow(MaxLifeStages) /\ stage /\ Observe /\ FrameStaging
    \/ CountBelow(MaxLifeCount) /\ trigger /\ Observe /\ FrameStaging
    \/ collect_asset_docs /\ Observe /\ FrameStaging
    \/ unstage /\ Observe /\ FrameStaging

NextStat ==
    \/ StagesBelow(MaxStatStages) /\ stage /\ FrameFS
    \/ CountBelow(MaxStatCount) /\ trigger /\ FrameFS
    \/ collect_asset_docs /\ FrameFS
    \/ unstage /\ FrameFS
    \/ attach_array_source /\ FrameFS
    \/ stat_eval /\ FrameFS

\* ------------------------------- ScpiSignalBase.trigger with a status monitor
\* the status_monitor dictionaries the signal may be constructed with;
\* threshold_function is "the count of readings has reached the level"
StatusMonitors ==
    {[trig_name |-> <<"init", "arm">>, name |-> "buffer_count",
      threshold_level |-> 2, post_name |-> "fetch"],
     [trig_name |-> <<"arm">>, name |-> "op_complete",
      threshold_level |-> 1, post_name |-> "fetch"]}

\* status_monitor['threshold_function'](status, level)
threshold_function(v, level) == v >= level

SetEvent(cmd) == [kind |-> "set", name |-> cmd, val |-> PyNone]
GetEvent(cmd, v) == [kind |-> "get", name |-> cmd, val |-> PyInt(v)]
BaseEvent == [kind |-> "base_trigger", name |-> "Signal", val |-> PyNone]

InitTrig ==
    /\ status_monitor = PyNone
    /\ tpc = "new"
    /\ tidx = 0
    /\ events = <<>>
    /\ status_now = 0
    /\ status_seen = PyNone

\* ScpiSignalBase.__init__: self._status_monitor = status_monitor
signal_init ==
    /\ tpc = "new"
    /\ \E sm \in {PyNone} \cup {PyDict(d) : d \in StatusMonitors} : status_monitor' = sm
    /\ tpc' = "idle"
    /\ UNCHANGED <<tidx, events, status_now, status_seen>>

\* trigger is called: if self._status_monitor is not None
trigger_call ==
    /\ tpc \in {"idle", "done"}
    /\ events' = <<>>
    /\ tidx' = 0
    /\ status_seen' = PyNone
    /\ tpc' = IF status_monitor = PyNone THEN "base"
              ELSE IF status_monitor[2].trig_name = <<>> THEN "poll"
              ELSE "trig_func"
    /\ UNCHANGED <<status_monitor, status_now>>

AfterTrigFuncSkipPoll == "post"
\* trigger: the statement after self._trigger_func() is the while loop
AfterTrigFunc == "poll"

\* trig_func: one iteration of  for tname in status_monitor['trig_name']
trig_func_step ==
    /\ tpc = "trig_func"
    /\ LET names == status_monitor[2].trig_name
       IN /\ tidx' = tidx + 1
          /\ events' = Append(events, SetEvent(names[tidx + 1]))
          /\ tpc' = IF tidx + 1 = Len(names) THEN AfterTrigFunc ELSE "trig_func"
    /\ UNCHANGED <<status_monitor, status_now, status_seen>>

PollExitAlways(v) == TRUE
\* trigger: the loop ends when threshold_function(status, level) holds
PollExit(v) == threshold_function(v, status_monitor[2].threshold_level)

FailedReads(evs) ==
    Cardinality({i \in DOMAIN evs :
        evs[i].kind = "get" /\ ~threshold_function(evs[i].val[2],
                                                  status_monitor[2].threshold_level)})

\* trigger: one evaluation of the while condition, which reads the status;
\* the event list keeps the first MaxPolls failed reads of a call
poll ==
    /\ tpc = "poll"
    /\ status_seen' = PyInt(status_now)
    /\ events' = IF threshold_function(status_now, status_monitor[2].threshold_level)
                    \/ FailedReads(events) < MaxPolls
                 THEN Append(events, GetEvent(status_monitor[2].name, status_now))
                 ELSE events
    /\ tpc' = IF PollExit(status_now) THEN "post" ELSE "sleep"
    /\ UNCHANGED <<status_monitor, tidx, status_now>>

\* trigger: time.sleep(self._poll_time) returns
sleep_return ==
    /\ tpc = "sleep"
    /\ tpc' = "poll"
    /\ UNCHANGED <<status_monitor, tidx, events, status_now, status_seen>>

\* trigger: self._post_status(None)
post_status ==
    /\ tpc = "post"
    /\ events' = Append(events, SetEvent(status_monitor[2].post_name))
    /\ tpc' = "base"
    /\ UNCHANGED <<status_monitor, tidx, status_now, status_seen>>

\* trigger: super().trigger(); return NullStatus()
base_trigger ==
    /\ tpc = "base"
    /\ events' = Append(events, BaseEvent)
    /\ tpc' = "done"
    /\ UNCHANGED <<status_monitor, tidx, status_now, status_seen>>

\* the instrument's status changes
instrument_change ==
    /\ \E v \in (0..MaxStatus) \ {status_now} : status_now' = v
    /\ UNCHANGED <<status_monitor, tpc, tidx, events, status_seen>>

\* the steps taken by the thread that runs trigger
TriggerRun ==
    \/ trig_func_step
    \/ poll
    \/ sleep_return
    \/ post_status
    \/ base_trigger

FrameTrig == UNCHANGED <<fsVars, setVars, genVars, descVars, obsVars, filtVars>>

NextTrig ==
    \/ signal_init /\ FrameTrig
    \/ trigger_call /\ FrameTrig
    \/ trig_func_step /\ FrameTrig
    \/ poll /\ FrameTrig
    \/ sleep_return /\ FrameTrig
    \/ post_status /\ FrameTrig
    \/ base_trigger /\ FrameTrig
    \/ instrument_change /\ FrameTrig

\* ------------------------------------------------------------ ScpiSignal.set
\* what the control layer's set may return: a sequence whose first element
\* tells whether the write succeeded
ControlReturns ==
    {PyTuple(<<PyBool(TRUE)>>), PyTuple(<<PyBool(FALSE)>>), PyTuple(<<PyInt(0)>>)}
\* the values a caller sets
SetValues == {PyInt(1), PyInt(5)}
\* the values a user gives self.delay
DelayValues == {PyNone} \cup {PyInt(d) : d \in 0..MaxDelay}

FinishesAlways(r) == TRUE
\* check_return: if ret[0]: st._finished()
check_return(r) == Truthy(r[2][1])

WakeTimeNoSleep(tw, d) == tw
\* sleep_and_finish: time.sleep(self.delay) starts when self._set has returned
WakeTime(tw, d) == tw + d

InitSet ==
    /\ delay = PyNone
    /\ spc = "idle"
    /\ bpc = "none"
    /\ set_value = PyNone
    /\ st_done = FALSE
    /\ ret = PyNone
    /\ writes = <<>>
    /\ clock = 0
    /\ t_write = 0
    /\ done_at_return = FALSE
    /\ call_delay = PyNone
    /\ sleep_for = PyNone

\* the user assigns self.delay (no call of set is in progress)
set_delay ==
    /\ spc \in {"idle", "returned"}
    /\ bpc \in {"none", "finished"}
    /\ \E d \in DelayValues \ {delay} : delay' = d
    /\ UNCHANGED <<spc, bpc, set_value, st_done, ret, writes, clock, t_write, done_at_return,
                   call_delay, sleep_for>>

\* set(value), up to its return when self.delay is falsy, and up to the start
\* of the thread when it is truthy
set_call ==
    /\ spc \in {"idle", "returned"}
    /\ bpc \in {"none", "finished"}
    /\ \E v \in SetValues, r \in ControlReturns :
          /\ set_value' = v
          /\ call_delay' = delay
          /\ IF Truthy(delay)
             THEN /\ st_done' = FALSE
                  /\ ret' = PyNone
                  /\ writes' = <<>>
                  /\ bpc' = "write"
                  /\ spc' = "called"
                  /\ UNCHANGED <<t_write, done_at_return>>
             ELSE /\ ret' = r
                  /\ writes' = <<[value |-> v, by |-> "caller", at |-> clock]>>
                  /\ t_write' = clock
                  /\ st_done' = check_return(r)
                  /\ done_at_return' = check_return(r)
                  /\ bpc' = "none"
                  /\ spc' = "returned"
    /\ UNCHANGED <<delay, clock, sleep_for>>

\* set: return st, after threading.Thread(...).start()
set_return ==
    /\ spc = "called"
    /\ spc' = "returned"
    /\ done_at_return' = st_done
    /\ UNCHANGED <<delay, bpc, set_value, st_done, ret, writes, clock, t_write,
                   call_delay, sleep_for>>

\* sleep_and_finish: ret = self._set(value=value)
thread_write ==
    /\ bpc = "write"
    /\ \E r \in ControlReturns : ret' = r
    /\ writes' = Append(writes, [value |-> set_value, by |-> "thread", at |-> clock])
    /\ t_write' = clock
    /\ sleep_for' = delay
    /\ bpc' = "sleep"
    /\ UNCHANGED <<delay, spc, set_value, st_done, clock, done_at_return, call_delay>>

\* sleep_and_finish: time.sleep(self.delay) returns; check_return(ret)
thread_finish ==
    /\ bpc = "sleep"
    /\ clock >= WakeTime(t_write, sleep_for[2])
    /\ st_done' = check_return(ret)
    /\ bpc' = "finished"
    /\ UNCHANGED <<delay, spc, set_value, ret, writes, clock, t_write, done_at_return,
                   call_delay, sleep_for>>

\* time passes
tick ==
    /\ clock < MaxTime
    /\ clock' = clock + 1
    /\ UNCHANGED <<delay, spc, bpc, set_value, st_done, ret, writes, t_write, done_at_return,
                   call_delay, sleep_for>>

FrameSet == UNCHANGED <<fsVars, trigVars, genVars, descVars, obsVars, filtVars>>

NextSet ==
    \/ set_delay /\ FrameSet
    \/ set_call /\ FrameSet
    \/ set_return /\ FrameSet
    \/ thread_write /\ FrameSet
    \/ thread_finish /\ FrameSet
    \/ tick /\ FrameSet

\* ------------------------------------------------------- generate_ophyd_obj
\* the classes scpi_obj may have: scpi.SCPI itself, the instruments derived
\* from it, ic.IC, and anything else
ScpiTypes == {"SCPI", "KeysightMultimeter", "RigolPowerSupply", "SRSLockIn",
              "KeysightOscilloscope"}
ObjTypes == ScpiTypes \cup {"IC", "other"}

\* names of commands: those the code singles out, and two ordinary ones
ArrayNames == {"burst_volt", "burst_volt_timer", "display_data"}
PlainNames == {"volt", "freq"}

\* the commands an SCPI object may hold.  array: whether cmd.getter_type has
\* the attribute returns_array, and its value; placeholder: the '{...}' field
\* of cmd.ascii_str of a command that takes an input
ScpiCmds ==
    {c \in [name : ArrayNames \cup PlainNames \cup {"meas_phase"},
            is_config : BOOLEAN,
            array : {"no_attr", "attr_false", "attr_true"},
            setter : BOOLEAN,
            getter_inputs : 0..2,
            setter_inputs : 0..2,
            placeholder : {"none", "ac_dc", "chan", "channel"},
            read_write : {"n/a"}] :
        /\ c.setter <=> c.setter_inputs >= 1
        /\ c.name \in ArrayNames =>
              c.array # "no_attr" /\ ~c.setter /\ c.getter_inputs = 0
        /\ c.name = "meas_phase" =>
              c.array = "no_attr" /\ ~c.setter /\ c.getter_inputs = 2
        /\ c.name \in PlainNames => c.getter_inputs <= 1
        /\ c.placeholder # "none" <=> c.getter_inputs = 1
        /\ c.setter /\ c.getter_inputs = 1 => c.setter_inputs = 2
        /\ c.setter /\ c.getter_inputs = 0 => c.setter_inputs = 1}

\* the commands an IC object may hold
IcCmds ==
    [name : PlainNames, is_config : BOOLEAN, array : {"no_attr"}, setter : {FALSE},
     getter_inputs : {0}, setter_inputs : {0}, placeholder : {"none"},
     read_write : {"R/W", "W", "R"}]

CmdsOf(t) == IF t = "IC" THEN IcCmds ELSE ScpiCmds

\* scpi_obj._channels of a RigolPowerSupply; channels of the oscilloscope
PowerSupplyChannels == {"1", "2"}
ScopeChannels == {"1", "2", "3", "4"}

\* Component(cls, control_layer=scpi_obj, cmd_name=..., configs=..., kind=...):
\* kind is "unset" when the call passes none; of_loop_cmd tells whether
\* cmd_name is the command of the loop iteration, whose is_config and
\* writability are then recorded with the component
Comp(cls, cmd, cmd_name, configs, kind, save) ==
    [cls |-> cls, cmd_name |-> cmd_name, configs |-> configs, kind |-> kind,
     save |-> save,
     of_loop_cmd |-> (cmd_name = cmd.name),
     cmd_is_config |-> cmd.is_config,
     cmd_writable |-> (cmd.setter \/ cmd.read_write \in {"R/W", "W"})]

\* the save_spec and save_ext a ScpiSignalFileSave component is given
NoSave == <<"n/a", "n/a">>
DefaultSave == <<"NPY_SEQ", "npy">>
PngSave == <<"PNG", "png">>

\* comp_kind
CompKind(cmd) == IF cmd.is_config THEN "config" ELSE "normal"

\* d with d[k] = v, as the assignment components[k] = v leaves it
DictSet(d, k, v) == (k :> v) @@ d

\* several assignments, where no key is assigned twice
DictUpdate(d, kvs) ==
    [k \in DOMAIN d \cup {kv[1] : kv \in kvs} |->
        IF \E kv \in kvs : kv[1] = k
        THEN (CHOOSE kv \in kvs : kv[1] = k)[2]
        ELSE d[k]]

\* lines 130-155: the command's getter_type has the attribute returns_array
ArrayBranch(cmd) ==
    IF cmd.name \in {"burst_volt", "burst_volt_timer"}
    THEN {<<<<cmd.name>>,
            Comp("ScpiSignalFileSave", cmd, cmd.name, cmd.name, "normal", DefaultSave)>>}
    ELSE {}

\* lines 157-162: a setter, or a getter only
PlainBranch(cmd) ==
    (IF cmd.setter /\ cmd.getter_inputs = 0 /\ cmd.setter_inputs < 2
     THEN {<<<<cmd.name>>, Comp("ScpiSignal", cmd, cmd.name, "none", CompKind(cmd), NoSave)>>}
     ELSE {})
    \cup
    (IF ~cmd.setter /\ cmd.getter_inputs = 0
     THEN {<<<<cmd.name>>, Comp("ScpiSignalBase", cmd, cmd.name, "none", CompKind(cmd), NoSave)>>}
     ELSE {})

\* lines 165-181: the multimeter's AC and DC versions
MultimeterBranch(cmd) ==
    (IF cmd.setter /\ cmd.getter_inputs = 1 /\ cmd.setter_inputs = 2
        /\ cmd.placeholder = "ac_dc"
     THEN {<<<<cmd.name, sfx>>,
             Comp("ScpiSignal", cmd, cmd.name, sfx, CompKind(cmd), NoSave)>> :
           sfx \in {"_dc", "_ac"}}
     ELSE {})
    \cup
    (IF ~cmd.setter /\ cmd.getter_inputs = 1 /\ cmd.placeholder = "ac_dc"
     THEN {<<<<cmd.name, sfx>>,
             Comp("ScpiSignalBase", cmd, cmd.name, sfx, CompKind(cmd), NoSave)>> :
           sfx \in {"_dc", "_ac"}}
     ELSE {})

\* lines 184-192: the power supply's components per channel
PowerSupplyBranch(cmd) ==
    (IF cmd.setter /\ cmd.getter_inputs = 1 /\ cmd.setter_inputs = 2
        /\ cmd.placeholder = "chan"
     THEN {<<<<cmd.name, "_chan", ch>>,
             Comp("ScpiSignal", cmd, cmd.name, ch, CompKind(cmd), NoSave)>> :
           ch \in PowerSupplyChannels}
     ELSE {})
    \cup
    (IF ~cmd.setter /\ cmd.getter_inputs = 1 /\ cmd.placeholder = "channel"
     THEN {<<<<cmd.name, "_chan", ch>>,
             Comp("ScpiSignalBase", cmd, cmd.name, ch, CompKind(cmd), NoSave)>> :
           ch \in PowerSupplyChannels}
     ELSE {})

\* lines 194-202: the lock-in's two long commands, made in every iteration
LockInBranch(cmd) ==
    {<<<<"off_exp">>, Comp("ScpiSignal", cmd, "off_exp", "chan2", "unset", NoSave)>>,
     <<<<"ch1_disp">>, Comp("ScpiSignal", cmd, "ch1_disp", "ratio0", "unset", NoSave)>>}

\* lines 207-224: hasattr(cmd.getter_type, 'returns_array') in the
\* oscilloscope's part
ScopeArrayBranch(cmd) ==
    IF cmd.name = "display_data"
    THEN {<<<<cmd.name>>,
            Comp("ScpiSignalFileSave", cmd, cmd.name, "none", "normal", PngSave)>>}
    ELSE {}

\* lines 234-242: the oscilloscope's components per channel
ScopeChannelBranch(cmd) ==
    (IF cmd.setter /\ cmd.getter_inputs = 1 /\ cmd.setter_inputs = 2
        /\ cmd.placeholder = "chan"
     THEN {<<<<cmd.name, "_chan", ch>>,
             Comp("ScpiSignal", cmd, cmd.name, ch, CompKind(cmd), NoSave)>> :
           ch \in ScopeChannels}
     ELSE {})
    \cup
    (IF ~cmd.setter /\ cmd.getter_inputs = 1 /\ cmd.placeholder = "chan"
     THEN {<<<<cmd.name, "_chan", ch>>,
             Comp("ScpiSignalBase", cmd, cmd.name, ch, CompKind(cmd), NoSave)>> :
           ch \in ScopeChannels}
     ELSE {})

\* lines 244-246: meas_phase, assigned after the other components
ScopePhaseBranch(cmd) ==
    IF cmd.name = "meas_phase"
    THEN {<<<<cmd.name>>,
            Comp("ScpiSignalBase", cmd, cmd.name, "chan1_2", CompKind(cmd), NoSave)>>}
    ELSE {}

\* lines 206-246: the oscilloscope's part, which stands in the else branch of
\* line 156 as the other instruments' parts do
ScopeBranch(d, cmd) ==
    LET first == IF cmd.array # "no_attr"
                 THEN DictUpdate(d, ScopeArrayBranch(cmd))
                 ELSE DictUpdate(d, PlainBranch(cmd))
        second == DictUpdate(first, ScopeChannelBranch(cmd))
    IN DictUpdate(second, ScopePhaseBranch(cmd))

\* lines 249-255: an IC object
IcBranch(cmd) ==
    IF cmd.read_write \in {"R/W", "W"}
    THEN {<<<<cmd.name>>, Comp("ScpiSignal", cmd, cmd.name, "none", CompKind(cmd), NoSave)>>}
    ELSE IF cmd.read_write \in {"R"}
    THEN {<<<<cmd.name>>, Comp("ScpiSignal", cmd, cmd.name, "none", CompKind(cmd), NoSave)>>}
    ELSE {}

\* lines 129-257: the body of the loop for one command
LoopBody(d, t, cmd) ==
    IF t \in ScpiTypes
    THEN IF cmd.array # "no_attr"
         THEN DictUpdate(d, ArrayBranch(cmd))
         ELSE LET plain == DictUpdate(d, PlainBranch(cmd))
                  meter == IF t = "KeysightMultimeter"
                           THEN DictUpdate(plain, MultimeterBranch(cmd)) ELSE plain
                  supply == IF t = "RigolPowerSupply"
                            THEN DictUpdate(meter, PowerSupplyBranch(cmd)) ELSE meter
                  lockin == IF t = "SRSLockIn"
                            THEN DictUpdate(supply, LockInBranch(cmd)) ELSE supply
              IN IF t = "KeysightOscilloscope" THEN ScopeBranch(lockin, cmd) ELSE lockin
    ELSE IF t = "IC" THEN DictUpdate(d, IcBranch(cmd))
    ELSE d

EmptyDict == [k \in {} |-> 0]

InitGen ==
    /\ gpc = "new"
    /\ obj_type = "none"
    /\ components = EmptyDict
    /\ done_cmds = {}

\* generate_ophyd_obj(name, scpi_obj) is called: components = {}
generate_call ==
    /\ gpc = "new"
    /\ \E t \in ObjTypes : obj_type' = t
    /\ components' = EmptyDict
    /\ done_cmds' = {}
    /\ gpc' = "loop"

\* one iteration of  for cmd_key, cmd in scpi_obj._cmds.items()
generate_loop ==
    /\ gpc = "loop"
    /\ \E cmd \in CmdsOf(obj_type) :
          /\ cmd.name \notin {c.name : c \in done_cmds}
          /\ components' = LoopBody(components, obj_type, cmd)
          /\ done_cmds' = done_cmds \cup {cmd}
    /\ UNCHANGED <<gpc, obj_type>>

\* after the loop: components['unconnected'] = scpi_obj.unconnected, and the
\* device class is made from components
generate_return ==
    /\ gpc = "loop"
    /\ components' = DictSet(components, <<"unconnected">>,
                             [cls |-> "attribute", cmd_name |-> "unconnected",
                              configs |-> "none", kind |-> "unset", save |-> NoSave,
                              of_loop_cmd |-> FALSE, cmd_is_config |-> FALSE,
                              cmd_writable |-> FALSE])
    /\ gpc' = "done"
    /\ UNCHANGED <<obj_type, done_cmds>>

CmdsBelow(n) == Cardinality(done_cmds) < n
FrameGen == UNCHANGED <<fsVars, trigVars, setVars, descVars, obsVars, filtVars>>

NextGen ==
    \/ generate_call /\ FrameGen
    \/ CmdsBelow(MaxCmds) /\ generate_loop /\ FrameGen
    \/ generate_return /\ FrameGen

\* ---------------------------------------- construction and describe
\* scpi_cl.name and the names of the signals
scpi_cl_name == "dmm"
composite_name == "phase_diff"

\* keyword arguments a caller may pass
Precisions == {PyInt(7), PyInt(10), PyInt(80), PyStr(<<"1", "2">>), PyStr(<<"h", "i">>), PyNone}
Dtypes == {"number", "string", "array"}
Shapes == {PyInt(1), PyTuple(<<1024>>)}
\* cmd.lookup.keys() of the command
Lookups == {<<>>, <<"ON", "OFF">>}
\* self.limits, as the framework's Signal reports them
Limits == {<<0, 0>>, <<0, 10>>}
\* save_path: None or a directory
SavePathArgs == {PyNone, PyStr(save_path)}

\* int(x): a decimal string is parsed, None is a TypeError, any other string a
\* ValueError
DigitVal(t) == CHOOSE i \in 0..9 : Digits[i + 1] = t
RECURSIVE ParseInt(_)
ParseInt(toks) ==
    IF toks = <<>> THEN 0
    ELSE 10 * ParseInt(SubSeq(toks, 1, Len(toks) - 1)) + DigitVal(toks[Len(toks)])
int(x) ==
    CASE x[1] = "int" -> <<"ok", x[2]>>
      [] x[1] = "str" ->
            IF x[2] # <<>> /\ \A i \in DOMAIN x[2] : \E d \in DOMAIN Digits : Digits[d] = x[2][i]
            THEN <<"ok", ParseInt(x[2])>>
            ELSE <<"ValueError">>
      [] OTHER -> <<"TypeError">>

NoObject == [a \in {} |-> PyNone]

\* ScpiSignalBase.__init__(scpi_cl=, cmd_name=, precision=, dtype=, shape=)
ScpiSignalBaseInit(precision, dtype, shape, lookup, limits) ==
    [_scpi_cl |-> scpi_cl_name, name |-> signal_name, _read_name |-> signal_name,
     limits |-> limits, lookup |-> lookup, precision |-> precision,
     dtype |-> dtype, shape |-> shape, delay |-> PyNone,
     enum_strs |-> lookup, _status_monitor |-> PyNone]

\* ScpiCompositeBase.__init__(get_func=, name=, precision=, dtype=, shape=):
\* neither _scpi_cl nor enum_strs is assigned
ScpiCompositeBaseInit(precision, dtype, shape, limits) ==
    [name |-> composite_name, _read_name |-> composite_name, limits |-> limits,
     is_config |-> FALSE, precision |-> precision, dtype |-> dtype, shape |-> shape,
     delay |-> PyNone, _get |-> "get_func", _status_monitor |-> PyNone]

\* ScpiCompositeSignal.__init__: super().__init__(get_func=, name=, configs=)
\* passes on neither precision nor dtype nor shape
ScpiCompositeSignalInit(limits) ==
    DictSet(ScpiCompositeBaseInit(PyInt(7), "number", PyInt(1), limits), "_set", "set_func")

\* the name mkdtemp: the module neither imports nor defines it
ModuleNames == {"logging", "time", "threading", "functools", "deque", "os",
                "itertools", "np", "wrapt", "Status", "Signal", "SynSignal",
                "NullStatus", "new_uid", "logger"}
mkdtemp == IF "mkdtemp" \in ModuleNames THEN <<"ok", PyStr(<<"/", "tmp", "/", "tmpdir">>)>>
           ELSE <<"NameError", "mkdtemp">>

\* ScpiSignalFileSave.__init__, up to the assignment of save_path: the base
\* class is constructed with its default precision and dtype
FileSaveInitHead(shape, lookup, limits) ==
    DictUpdate(ScpiSignalBaseInit(PyInt(7), "number", shape, lookup, limits),
               {<<"save_func", "np.save">>, <<"save_ext", save_ext>>,
                <<"_resource_uid", PyNone>>, <<"_datum_counter", PyNone>>,
                <<"_asset_docs_cache", <<>>>>})

\* ScpiSignalFileSave.__init__, after the assignment of save_path
FileSaveInitTail(o, path, precision, dtype) ==
    DictUpdate(o, {<<"save_path", path>>, <<"_spec", save_spec>>,
                   <<"_file_stem", PyNone>>, <<"_path_stem", PyNone>>,
                   <<"_result", {}>>, <<"_value", PyNone>>,
                   <<"dtype", dtype>>, <<"precision", precision>>})

InitDesc ==
    /\ sig_cls = "none"
    /\ sig = NoObject
    /\ dop = <<"none">>
    /\ described = <<"none">>

\* ------------------------------------------------------------ apply_filter
\* Python's floats are IEEE doubles: a significand of FloatBits bits times a
\* power of two, every operation rounded to the nearest such value (ties to
\* even).  Significands do not fit 32-bit integers, so they
\* are naturals written as sequences of limbs, lowest first, without a
\* leading zero limb.
FloatBits == 53
LimbBits == 15
Base == 32768

RECURSIVE Pow2(_)
Pow2(n) == IF n = 0 THEN 1 ELSE 2 * Pow2(n - 1)

RECURSIVE Big(_)
Big(n) == IF n = 0 THEN <<>> ELSE <<n % Base>> \o Big(n \div Base)

RECURSIVE ToInt(_)
ToInt(x) == IF x = <<>> THEN 0 ELSE Head(x) + Base * ToInt(Tail(x))

RECURSIVE Norm(_)
Norm(x) == IF x # <<>> /\ x[Len(x)] = 0 THEN Norm(SubSeq(x, 1, Len(x) - 1)) ELSE x

LimbHead(x) == IF x = <<>> THEN 0 ELSE Head(x)
LimbTail(x) == IF x = <<>> THEN <<>> ELSE Tail(x)

RECURSIVE AddC(_, _, _)
AddC(x, y, c) ==
    IF x = <<>> /\ y = <<>> THEN Big(c)
    ELSE LET t == LimbHead(x) + LimbHead(y) + c
         IN <<t % Base>> \o AddC(LimbTail(x), LimbTail(y), t \div Base)
BigAdd(x, y) == AddC(x, y, 0)

\* x - y - b for x >= y + b
RECURSIVE SubB(_, _, _)
SubB(x, y, b) ==
    IF x = <<>> THEN <<>>
    ELSE LET d == Head(x) - LimbHead(y) - b
         IN IF d < 0 THEN <<d + Base>> \o SubB(Tail(x), LimbTail(y), 1)
            ELSE <<d>> \o SubB(Tail(x), LimbTail(y), 0)
BigSub(x, y) == Norm(SubB(x, y, 0))

RECURSIVE BigLess(_, _)
BigLess(x, y) ==
    IF Len(x) # Len(y) THEN Len(x) < Len(y)
    ELSE IF x = <<>> THEN FALSE
    ELSE IF x[Len(x)] # y[Len(y)] THEN x[Len(x)] < y[Len(y)]
    ELSE BigLess(SubSeq(x, 1, Len(x) - 1), SubSeq(y, 1, Len(y) - 1))

\* x * k for 0 <= k < Base
RECURSIVE MulSmallC(_, _, _)
MulSmallC(x, k, c) ==
    IF x = <<>> THEN Big(c)
    ELSE LET t == Head(x) * k + c
         IN <<t % Base>> \o MulSmallC(Tail(x), k, t \div Base)
BigMulSmall(x, k) == IF k = 0 THEN <<>> ELSE MulSmallC(x, k, 0)

\* x * 2^n
RECURSIVE Shl(_, _)
Shl(x, n) ==
    IF x = <<>> \/ n = 0 THEN x
    ELSE IF n >= LimbBits THEN <<0>> \o Shl(x, n - LimbBits)
    ELSE BigMulSmall(x, Pow2(n))

RECURSIVE SmallBitLen(_)
SmallBitLen(n) == IF n = 0 THEN 0 ELSE 1 + SmallBitLen(n \div 2)
BitLen(x) == IF x = <<>> THEN 0 ELSE LimbBits * (Len(x) - 1) + SmallBitLen(x[Len(x)])

\* bit i of x, bit 0 the lowest
Bit(x, i) ==
    IF i \div LimbBits + 1 > Len(x) THEN 0
    ELSE (x[i \div LimbBits + 1] \div Pow2(i % LimbBits)) % 2

\* long division of a by d over the bits hi down to lo of a, entered with
\* the remainder r of the bits above: <<quotient bits, remainder>>
RECURSIVE DivBits(_, _, _, _, _)
DivBits(a, d, hi, lo, r) ==
    IF hi = lo
    THEN LET r2 == BigAdd(BigMulSmall(r, 2), Big(Bit(a, hi)))
         IN IF BigLess(r2, d) THEN <<<<>>, r2>> ELSE <<Big(1), BigSub(r2, d)>>
    ELSE LET mid == (hi + lo + 1) \div 2
             upper == DivBits(a, d, hi, mid, r)
             lower == DivBits(a, d, mid - 1, lo, upper[2])
         IN <<BigAdd(Shl(upper[1], mid - lo), lower[1]), lower[2]>>
\* <<a div d, a mod d>>
DivMod(a, d) ==
    IF a = <<>> THEN <<<<>>, <<>>>> ELSE DivBits(a, d, BitLen(a) - 1, 0, <<>>)

\* the float nearest to (a / d) * 2^s, for naturals a, d > 0: the quotient is
\* taken at the scale at which it has FloatBits bits and rounded on the
\* remainder, ties to the even significand
RoundDiv(a, d, s) ==
    LET t0 == FloatBits - (BitLen(a) - BitLen(d))
        num(k) == IF k >= 0 THEN Shl(a, k) ELSE a
        den(k) == IF k >= 0 THEN d ELSE Shl(d, 0 - k)
        t == IF BitLen(DivMod(num(t0), den(t0))[1]) > FloatBits THEN t0 - 1 ELSE t0
        qr == DivMod(num(t), den(t))
        twice == BigMulSmall(qr[2], 2)
        up == BigLess(den(t), twice) \/ (twice = den(t) /\ Bit(qr[1], 0) = 1)
        q == IF up THEN BigAdd(qr[1], Big(1)) ELSE qr[1]
    IN IF BitLen(q) > FloatBits
       THEN [m |-> Shl(Big(1), FloatBits - 1), e |-> s - t + 1]
       ELSE [m |-> q, e |-> s - t]

\* p / q of two small positive ints, and the float of the literal p/q
FromRatio(p, q) == RoundDiv(Big(p), Big(q), 0)
\* x / y of two floats
FDiv(x, y) == RoundDiv(x.m, y.m, x.e - y.e)
\* k * x and x * k of a float and a small positive integral value
FMulInt(x, k) == RoundDiv(BigMulSmall(x.m, k), Big(1), x.e)
\* int(x) of a positive float: the integral part
FloatInt(x) ==
    IF x.e >= 0 THEN ToInt(Shl(x.m, x.e))
    ELSE ToInt(DivMod(x.m, Shl(Big(1), 0 - x.e))[1])

\* the arguments of the calls explored: tau and sample_rate (FilterStatistics
\* uses tau = 10e-3), the filter orders of FilterStatistics, len(arr)
Taus == {<<3, 10>>, <<1, 49>>, <<1, 2>>, <<1, 10>>, <<1, 100>>}
SampleRates == {4, 10, 49}
FilterOrders == {1, 4}
tau_settle == 5

\* signal.filtfilt(num, denom, arr): the output has the length of arr, and
\* arr must be longer than padlen = 3 * max(len(num), len(denom))
padlen(order) == 3 * (order + 1)
filtfilt_ok(order, n) == n > padlen(order)

\* settle_idx = int(tau_settle * tau / (1 / sample_rate))
settle_idx(tau, rate) ==
    FloatInt(FDiv(FMulInt(FromRatio(tau[1], tau[2]), tau_settle), FromRatio(1, rate)))

\* decimate_length = int(tau / (1 / sample_rate))
decimate_length(tau, rate) ==
    FloatInt(FDiv(FromRatio(tau[1], tau[2]), FromRatio(1, rate)))

\* the positions of output_signal[start::step] in an array of n samples, for
\* start >= 0 and step > 0
Slice(n, start, step) ==
    LET kept == {i \in 0..(n - 1) : i >= start /\ (i - start) % step = 0}
    IN [j \in 1..Cardinality(kept) |->
           CHOOSE x \in kept : Cardinality({y \in kept : y < x}) = j - 1]

NoOutput == [kind |-> "none"]

InitFilt ==
    /\ fpc = "idle"
    /\ f_tau = <<1, 1>>
    /\ f_rate = 1
    /\ f_order = 1
    /\ f_len = 0
    /\ f_out = NoOutput

\* apply_filter(arr, num, denom, sample_rate, tau, final_stat_function)
apply_filter_call ==
    /\ fpc = "idle"
    /\ \E tau \in Taus, rate \in SampleRates, order \in FilterOrders,
          n \in 0..MaxSamples :
          /\ f_tau' = tau
          /\ f_rate' = rate
          /\ f_order' = order
          /\ f_len' = n
    /\ fpc' = "called"
    /\ f_out' = NoOutput

\* the body: filtfilt, the two indices, the slice, final_stat_function
apply_filter ==
    /\ fpc = "called"
    /\ LET start == settle_idx(f_tau, f_rate)
           step == decimate_length(f_tau, f_rate)
       IN IF ~filtfilt_ok(f_order, f_len)
          THEN /\ f_out' = [kind |-> "ValueError", at |-> "filtfilt"]
               /\ fpc' = "raised"
          ELSE IF step = 0
          THEN /\ f_out' = [kind |-> "ValueError", at |-> "slice"]
               /\ fpc' = "raised"
          ELSE /\ f_out' = [kind |-> "ok", at |-> "final_stat_function",
                            settle_idx |-> start, decimate_length |-> step,
                            arr_downsample |-> Slice(f_len, start, step)]
               /\ fpc' = "returned"
    /\ UNCHANGED <<f_tau, f_rate, f_order, f_len>>

\* the caller has the statistic, or the exception, and goes on
apply_filter_done ==
    /\ fpc \in {"returned", "raised"}
    /\ fpc' = "idle"
    /\ UNCHANGED <<f_tau, f_rate, f_order, f_len, f_out>>

FrameFilt == UNCHANGED <<fsVars, trigVars, setVars, genVars, descVars, obsVars>>

NextFilt ==
    \/ apply_filter_call /\ FrameFilt
    \/ apply_filter /\ FrameFilt
    \/ apply_filter_done /\ FrameFilt

\* ScpiSignalBase(...)
construct_base ==
    \E precision \in Precisions, dtype \in Dtypes, shape \in Shapes,
       lookup \in Lookups, limits \in Limits :
        /\ sig' = ScpiSignalBaseInit(precision, dtype, shape, lookup, limits)
        /\ sig_cls' = "ScpiSignalBase"
        /\ dop' = <<"__init__", "ScpiSignalBase", PyNone>>
        /\ described' = <<"ok">>

\* ScpiCompositeBase(...) and ScpiCompositeSignal(...)
construct_composite ==
    \E precision \in Precisions, dtype \in Dtypes, shape \in Shapes,
       limits \in Limits, cls \in {"ScpiCompositeBase", "ScpiCompositeSignal"} :
        /\ sig' = IF cls = "ScpiCompositeBase"
                  THEN ScpiCompositeBaseInit(precision, dtype, shape, limits)
                  ELSE ScpiCompositeSignalInit(limits)
        /\ sig_cls' = cls
        /\ dop' = <<"__init__", cls, PyNone>>
        /\ described' = <<"ok">>

\* ScpiSignalFileSave(..., save_path=path, dtype=, precision=): an exception
\* in __init__ leaves the caller without an object
construct_file_save ==
    \E path \in SavePathArgs, precision \in Precisions, dtype \in Dtypes,
       shape \in Shapes, lookup \in Lookups, limits \in Limits :
        LET head == FileSaveInitHead(shape, lookup, limits)
            tmp == mkdtemp
        IN /\ dop' = <<"__init__", "ScpiSignalFileSave", path>>
           /\ IF path = PyNone /\ tmp[1] # "ok"
              THEN /\ sig' = NoObject
                   /\ sig_cls' = "none"
                   /\ described' = tmp
              ELSE /\ sig' = FileSaveInitTail(head, IF path = PyNone THEN tmp[2] ELSE path,
                                              precision, dtype)
                   /\ sig_cls' = "ScpiSignalFileSave"
                   /\ described' = <<"ok">>

\* the body shared by ScpiSignalBase.describe (lines 123-140) and
\* ScpiCompositeBase.describe (lines 265-283)
DescribeBody(o) ==
    LET d0 == [source |-> <<o._scpi_cl, ":", o._read_name>>]
        d1 == DictSet(d0, "dtype", o.dtype)
        d2 == DictSet(d1, "shape", o.shape)
        d3 == IF int(o.precision)[1] = "ok"
              THEN DictSet(d2, "precision", PyInt(int(o.precision)[2]))
              ELSE d2
        d4 == DictSet(d3, "lower_ctrl_limit", o.limits[1])
        d5 == DictSet(d4, "upper_ctrl_limit", o.limits[2])
        d6 == IF o.enum_strs # <<>> THEN DictSet(d5, "enum_strs", o.enum_strs) ELSE d5
    IN (o.name :> d6)

\* the first attribute among names that the object lacks
MissingAttr(o, names) ==
    IF \E i \in DOMAIN names : names[i] \notin DOMAIN o
    THEN <<"AttributeError",
           names[CHOOSE i \in DOMAIN names :
                    /\ names[i] \notin DOMAIN o
                    /\ \A j \in 1..(i - 1) : names[j] \in DOMAIN o]>>
    ELSE <<"ok">>

\* the attributes describe reads, in the order it reads them
DescribeReads == <<"_scpi_cl", "_read_name", "dtype", "shape", "precision", "limits",
                   "enum_strs", "name">>

\* ScpiSignalBase.describe
ScpiSignalBaseDescribe(o) ==
    IF MissingAttr(o, DescribeReads)[1] = "ok" THEN <<"ok", DescribeBody(o)>>
    ELSE MissingAttr(o, DescribeReads)

\* ScpiCompositeBase.describe
ScpiCompositeBaseDescribe(o) ==
    IF MissingAttr(o, DescribeReads)[1] = "ok" THEN <<"ok", DescribeBody(o)>>
    ELSE MissingAttr(o, DescribeReads)

\* ScpiSignalFileSave.describe: the three assignments of the loop
SetExternal(desc) == DictSet(desc, "external", "FILESTORE")
SetDtype(desc, o) == DictSet(desc, "dtype", o.dtype)
SetPrecisionSkipped(desc, o) == desc
SetPrecision(desc, o) == DictSet(desc, "precision", o.precision)

\* ScpiSignalFileSave.describe
ScpiSignalFileSaveDescribe(o) ==
    LET res == ScpiSignalBaseDescribe(o)
    IN IF res[1] # "ok" THEN res
       ELSE <<"ok", [key \in DOMAIN res[2] |->
                        SetPrecision(SetDtype(SetExternal(res[2][key]), o), o)]>>

\* obj.describe()
describe ==
    /\ sig_cls # "none"
    /\ dop' = <<"describe", sig_cls, PyNone>>
    /\ described' =
          CASE sig_cls = "ScpiSignalBase" -> ScpiSignalBaseDescribe(sig)
            [] sig_cls = "ScpiSignalFileSave" -> ScpiSignalFileSaveDescribe(sig)
            [] OTHER -> ScpiCompositeBaseDescribe(sig)
    /\ UNCHANGED <<sig_cls, sig>>

FrameDesc == UNCHANGED <<fsVars, trigVars, setVars, genVars, obsVars, filtVars>>

NextDesc ==
    \/ construct_base /\ FrameDesc
    \/ construct_composite /\ FrameDesc
    \/ construct_file_save /\ FrameDesc
    \/ describe /\ FrameDesc

Init == InitFS /\ InitTrig /\ InitSet /\ InitGen /\ InitDesc /\ InitFilt

Spec == Init /\ [][NextFS]_vars

SpecStat == Init /\ [][NextStat]_vars

SpecTrig == Init /\ [][NextTrig]_vars

SpecSet == Init /\ [][NextSet]_vars

SpecGen == Init /\ [][NextGen]_vars

SpecDesc == Init /\ [][NextDesc]_vars

SpecStaging == Init /\ [][NextStaging]_vars

SpecFilt == Init /\ [][NextFilt]_vars

\* the thread that runs trigger keeps running
SpecTrigFair ==
    /\ SpecTrig
    /\ WF_vars(TriggerRun /\ FrameTrig)

\* =================================================================== claims
IsDatum(item) == item[1] = "datum"
Prefix(items, n) == [i \in 1..n |-> items[i]]

\* C1: every datum document yielded by a collection references a resource uid
\* whose resource document was yielded before it, earlier in the same
\* collection or in a previous collection.
C1_DatumAfterResource ==
    [][op' = <<"collect", "ok">> =>
        \A i \in DOMAIN last_yield' :
            IsDatum(last_yield'[i]) =>
                last_yield'[i][2].resource \in
                    yielded_resources \cup ResourceUids(Prefix(last_yield', i - 1))]_vars

\* a collection yields a datum whose resource was yielded by a previous one
C1_Witness ==
    /\ op = <<"collect", "ok">>
    /\ \E i \in DOMAIN last_yield :
          /\ IsDatum(last_yield[i])
          /\ last_yield[i][2].resource \notin ResourceUids(last_yield)
          /\ last_yield[i][2].resource \in yielded_resources

\* C2: a collection yields exactly the documents appended by stage and trigger
\* since the previous collection or unstage, each once and in the order of
\* appending, and leaves the cache empty; a collection that directly follows
\* a collection yields nothing.
C2_CollectYieldsPending ==
    [][op' = <<"collect", "ok">> =>
        /\ last_yield' = pending
        /\ asset_docs_cache' = <<>>
        /\ \A i, j \in DOMAIN last_yield' : last_yield'[i] = last_yield'[j] => i = j
        /\ op = <<"collect", "ok">> => last_yield' = <<>>]_vars

\* a collection that yielded a resource document and a datum document
C2_Witness ==
    /\ op = <<"collect", "ok">>
    /\ Len(last_yield) >= 2
    /\ \E i \in DOMAIN last_yield : IsDatum(last_yield[i])
    /\ asset_docs_cache = <<>>

\* C3: after a successful trigger of a staged signal, read() reports as the
\* value of its one reading the datum_id of the datum document that this
\* trigger appended, and not the raw array the trigger acquired.
C3_ReadReportsDatumId ==
    [][op' = <<"trigger", "ok">> =>
        /\ Len(asset_docs_cache') = Len(asset_docs_cache) + 1
        /\ IsDatum(asset_docs_cache'[Len(asset_docs_cache')])
        /\ read' = {<<signal_name,
                      [value |-> PyStr(asset_docs_cache'[Len(asset_docs_cache')][2].datum_id),
                       timestamp |-> signal_timestamp]>>}
        /\ \A kv \in read' : kv[2].value # acquired']_vars

\* a successful trigger has happened and read() holds its reading
C3_Witness ==
    /\ op = <<"trigger", "ok">>
    /\ resource_uid # PyNone
    /\ \E kv \in read : kv[2].value[1] = "str"
    /\ acquired[1] = "ndarray"

\* C10: func() of a StatCalculator returns None when no array source is
\* attached or when the source returns None, and otherwise stat_func of the
\* array the source returns; for get_array of a ScpiSignalFileSave that array
\* is the raw value acquired by the last successful trigger, never the
\* datum_id that read() reports.
C10_StatOfLastAcquired ==
    [][stat_out' # stat_out =>
        /\ stat_out'[2] =
              IF img = PyNone THEN PyNone
              ELSE IF acquired = PyNone THEN PyNone
              ELSE stat_func(stat_out'[1], acquired)
        /\ get_array = acquired
        /\ \A kv \in read : get_array # kv[2].value]_vars

\* a statistic was computed from the second array acquired while read()
\* reports a datum_id
C10_Witness ==
    /\ stat_out = <<"sum", <<"int", 4>>>>
    /\ img # PyNone
    /\ datum_counter = PyCount(2)
    /\ \E kv \in read : kv[2].value[1] = "str"

\* the monitor's threshold holds for status v
Reached(v) == threshold_function(v, status_monitor[2].threshold_level)
Monitored == status_monitor # PyNone
TrigNames == status_monitor[2].trig_name
IsRead(e) == e.kind = "get" /\ e.name = status_monitor[2].name
IsPost(e) == e = SetEvent(status_monitor[2].post_name)

\* C4: with a status monitor, a call of trigger sets every command of
\* trig_name in list order, then reads the status one or more times, every
\* read but the last failing the threshold and the last satisfying it, then
\* sets the post-status command exactly once, then runs the base trigger; the
\* post-status command is never set before a read satisfied the threshold.
C4_TriggerOrder ==
    Monitored =>
        LET n == Len(TrigNames)
            len == Len(events)
        IN /\ \A i \in 1..len :
                IF i <= n THEN events[i] = SetEvent(TrigNames[i])
                ELSE \/ /\ IsRead(events[i])
                        /\ \A j \in (n + 1)..(i - 1) :
                              IsRead(events[j]) /\ ~Reached(events[j].val[2])
                     \/ /\ IsPost(events[i])
                        /\ i > n + 1
                        /\ IsRead(events[i - 1]) /\ Reached(events[i - 1].val[2])
                     \/ /\ events[i] = BaseEvent
                        /\ i = len
                        /\ i > n + 2
                        /\ IsPost(events[i - 1])
           /\ tpc \in {"poll", "sleep", "post", "base", "done"} => len >= n
           /\ tpc \in {"poll", "sleep"} =>
                 \A i \in (n + 1)..len : IsRead(events[i]) /\ ~Reached(events[i].val[2])
           /\ tpc = "sleep" => status_seen # PyNone
           /\ tpc = "post" => len > n /\ IsRead(events[len]) /\ Reached(events[len].val[2])
           /\ tpc = "base" => len > n + 1 /\ IsPost(events[len])
           /\ tpc = "done" => len > n + 2 /\ events[len] = BaseEvent

\* a call with two trigger commands returned after a failed and a good poll
C4_Witness ==
    /\ Monitored
    /\ tpc = "done"
    /\ Len(TrigNames) = 2
    /\ FailedReads(events) >= 1
    /\ Len(events) = Len(TrigNames) + FailedReads(events) + 3

StatusGood == IF Monitored THEN Reached(status_now) ELSE FALSE
TriggerRunning == Monitored /\ tpc \in {"trig_func", "poll", "sleep", "post", "base"}

\* C5: with a status monitor, trigger gets past its loop only after a poll
\* read a status that satisfies the threshold; if the instrument's status
\* eventually satisfies the threshold for good, every call returns; if the
\* status never satisfies it, no call ever leaves the loop.
C5_ReturnsIffThreshold ==
    /\ [](Monitored /\ tpc \in {"post", "base", "done"} =>
             status_seen # PyNone /\ Reached(status_seen[2]))
    /\ (<>[]StatusGood) => [](TriggerRunning => <>(tpc = "done"))
    /\ ([]~StatusGood) => [](Monitored => tpc \notin {"post", "base", "done"})

\* a call returned after polls that failed
C5_Witness ==
    /\ Monitored
    /\ tpc = "done"
    /\ FailedReads(events) = MaxPolls
    /\ Reached(status_seen[2])

NoDelayCall == spc = "returned" /\ bpc = "none" /\ ~Truthy(call_delay)
DelayCall == bpc # "none" /\ Truthy(call_delay)

\* C6: set with no delay issues exactly one instrument write, of the given
\* value, before it returns; the Status it returns is finished if and only if
\* the first element of the control layer's return value is truthy, and a
\* Status left unfinished by a failed write stays unfinished.
C6_SetNoDelay ==
    NoDelayCall =>
        /\ Len(writes) = 1
        /\ writes[1].value = set_value
        /\ writes[1].by = "caller"
        /\ done_at_return <=> Truthy(ret[2][1])
        /\ st_done <=> Truthy(ret[2][1])

\* a set without delay returned an unfinished Status after a failed write,
\* and time has passed since
C6_Witness ==
    /\ NoDelayCall
    /\ ~Truthy(ret[2][1])
    /\ ~st_done
    /\ clock > t_write

\* C7 as stated: set with a delay returns a Status that is not yet finished;
\* the write is issued by the thread before the delay starts; the Status is
\* finished only after the full delay has elapsed since a successful write.
C7_Original ==
    DelayCall =>
        /\ spc = "returned" => ~done_at_return
        /\ \A i \in DOMAIN writes : writes[i].by = "thread"
        /\ bpc \in {"sleep", "finished"} => Len(writes) = 1
        /\ st_done => /\ Len(writes) = 1
                      /\ Truthy(ret[2][1])
                      /\ clock >= t_write + call_delay[2]

\* C7 as amended: set with a delay issues no write itself and does not wait
\* for the thread; the thread issues the one write, of the given value, before
\* the delay starts; the Status is finished only after the full delay has
\* elapsed since a successful write, so the Status set returns is unfinished
\* unless write and delay were over before set returned.
C7_SetWithDelay ==
    DelayCall =>
        /\ \A i \in DOMAIN writes : writes[i].by = "thread" /\ writes[i].value = set_value
        /\ bpc = "write" => writes = <<>> /\ ~st_done
        /\ bpc \in {"sleep", "finished"} => Len(writes) = 1 /\ writes[1].at = t_write
        /\ bpc = "sleep" => ~st_done
        /\ st_done => /\ Truthy(ret[2][1])
                      /\ clock >= t_write + call_delay[2]
        /\ (spc = "returned" /\ done_at_return) => st_done

\* set returned an unfinished Status before the thread wrote, and the Status
\* finished when the delay after the write was over
C7_Witness ==
    /\ DelayCall
    /\ spc = "returned"
    /\ ~done_at_return
    /\ st_done
    /\ call_delay = PyInt(MaxDelay)
    /\ clock = t_write + MaxDelay

\* C8 as stated: every component that wraps the loop's command as a ScpiSignal
\* or a ScpiSignalBase is a ScpiSignal when the command has a setter (for an
\* IC command: is marked 'R/W' or 'W') and a ScpiSignalBase when the command
\* is getter-only (for an IC command: is marked 'R').
C8_Original ==
    \A k \in DOMAIN components :
        LET c == components[k]
        IN (c.of_loop_cmd /\ c.cls \in {"ScpiSignal", "ScpiSignalBase"}) =>
              c.cls = IF c.cmd_writable THEN "ScpiSignal" ELSE "ScpiSignalBase"

\* C9 as stated: for a KeysightOscilloscope whose command display_data returns
\* an array, the components hold a ScpiSignalFileSave for display_data that
\* saves PNG files.
C9_Original ==
    (/\ obj_type = "KeysightOscilloscope"
     /\ \E c \in done_cmds : c.name = "display_data" /\ c.array = "attr_true") =>
        /\ <<"display_data">> \in DOMAIN components
        /\ components[<<"display_data">>].cls = "ScpiSignalFileSave"
        /\ components[<<"display_data">>].save = PngSave

\* the datum document appended last
LastDoc(cache) == cache[Len(cache)][2]

\* C11: the file path handed to save_func by a trigger on a staged signal is
\* save_path joined with the datum_id of the datum document the trigger
\* appends; path and datum_id carry the same resource uid, reading index,
\* datum count and extension, and the resource document appended by the
\* stage has that save_path as root and that uid as resource_path.
C11_PathIsRootJoinDatumId ==
    [][(op' = <<"trigger", "ok">> =>
            /\ Len(save_calls') = 1
            /\ IsDatum(asset_docs_cache'[Len(asset_docs_cache')])
            /\ save_calls'[1].path =
                   PathJoin(save_path, LastDoc(asset_docs_cache').datum_id)
            /\ LastDoc(asset_docs_cache').datum_id =
                   FormatName(resource_uid[2],
                              LastDoc(asset_docs_cache').datum_kwargs.index,
                              datum_counter[2], save_ext)
            /\ LastDoc(asset_docs_cache').resource = resource_uid[2])
       /\ (op' = <<"trigger", "save_error">> =>
            /\ Len(save_calls') = 1
            /\ save_calls'[1].path =
                   PathJoin(save_path, FormatName(resource_uid[2], 0, datum_counter[2], save_ext)))
       /\ (op' = <<"stage", "ok">> =>
            /\ LastDoc(asset_docs_cache').root = save_path
            /\ LastDoc(asset_docs_cache').resource_path = resource_uid'[2]
            /\ LastDoc(asset_docs_cache').uid = resource_uid'[2])]_vars

\* the second trigger of the second staging saved a file below save_path
C11_Witness ==
    /\ op = <<"trigger", "ok">>
    /\ resource_uid = PyStr(new_uid(2))
    /\ datum_counter = PyCount(2)
    /\ Len(save_calls) = 1
    /\ save_calls[1].path = <<"/", "data", "/", "uidB", "_", "0", "_", "1", ".", "npy">>

\* C12 (as claimed): describe of a ScpiCompositeBase or ScpiCompositeSignal
\* returns a dictionary that maps the signal's name to its description
\* (source, dtype, shape, control limits) and does not end in an error.
C12_Original ==
    (dop[1] = "describe" /\ dop[2] \in {"ScpiCompositeBase", "ScpiCompositeSignal"}) =>
        /\ described[1] = "ok"
        /\ DOMAIN described[2] = {sig.name}
        /\ {"source", "dtype", "shape", "lower_ctrl_limit", "upper_ctrl_limit"}
              \subseteq DOMAIN described[2][sig.name]

\* C13 (as claimed): constructing a ScpiSignalFileSave with save_path None
\* succeeds and leaves a temporary directory as the object's save_path.
C13_Original ==
    (dop[1] = "__init__" /\ dop[2] = "ScpiSignalFileSave" /\ dop[3] = PyNone) =>
        /\ described = <<"ok">>
        /\ sig_cls = "ScpiSignalFileSave"
        /\ sig.save_path[1] = "str"

\* C14: describe of a ScpiSignalFileSave returns the base description with,
\* for every key, external = "FILESTORE" and dtype and precision those of the
\* signal itself; every other field is as in the base description.
C14_DescribeOverrides ==
    (dop[1] = "describe" /\ dop[2] = "ScpiSignalFileSave") =>
        /\ described[1] = "ok"
        /\ ScpiSignalBaseDescribe(sig)[1] = "ok"
        /\ LET res == described[2]
               base == ScpiSignalBaseDescribe(sig)[2]
           IN /\ DOMAIN res = DOMAIN base
              /\ \A key \in DOMAIN res :
                    /\ DOMAIN res[key] =
                          DOMAIN base[key] \cup {"external", "dtype", "precision"}
                    /\ res[key].external = "FILESTORE"
                    /\ res[key].dtype = sig.dtype
                    /\ res[key].precision = sig.precision
                    /\ \A f \in DOMAIN base[key] \ {"dtype", "precision"} :
                          res[key][f] = base[key][f]

\* a described file-save signal whose precision the base description holds
\* as another value (the int of a string)
C14_Witness ==
    /\ dop[1] = "describe"
    /\ dop[2] = "ScpiSignalFileSave"
    /\ described[1] = "ok"
    /\ sig.precision = PyStr(<<"1", "2">>)
    /\ ScpiSignalBaseDescribe(sig)[2][sig.name].precision = PyInt(12)
    /\ "enum_strs" \in DOMAIN described[2][sig.name]

\* the datum_id a trigger of the current staging produces with count n
IdWithCount(n) == FormatName(resource_uid[2], 0, n, save_ext)
SeqRange(q) == {q[i] : i \in DOMAIN q}

\* C15 (as claimed): within one staging the k-th successful trigger uses
\* datum count k-1, saves exactly one file and appends exactly one datum
\* document.
C15_Original ==
    [][op' = <<"trigger", "ok">> =>
        /\ Len(save_calls') = 1
        /\ Len(asset_docs_cache') = Len(asset_docs_cache) + 1
        /\ IsDatum(asset_docs_cache'[Len(asset_docs_cache')])
        /\ LastDoc(asset_docs_cache').datum_id = IdWithCount(ok_count)]_vars

\* C15 (amended): within one staging every successful trigger saves exactly
\* one file, appends exactly one datum document and uses as datum count the
\* number of earlier triggers of the staging that called save_func, which is
\* at least the number of earlier successful ones; the datum_ids of one
\* staging are pairwise distinct and as many as the successful triggers.
C15_CountsSaveCalls ==
    [][op' = <<"trigger", "ok">> =>
        /\ Len(save_calls') = 1
        /\ Len(asset_docs_cache') = Len(asset_docs_cache) + 1
        /\ Prefix(asset_docs_cache', Len(asset_docs_cache)) = asset_docs_cache
        /\ IsDatum(asset_docs_cache'[Len(asset_docs_cache')])
        /\ LastDoc(asset_docs_cache').datum_id = IdWithCount(attempts)
        /\ attempts >= ok_count
        /\ LastDoc(asset_docs_cache').datum_id \notin SeqRange(staging_datums)
        /\ Len(staging_datums') = ok_count'
        /\ Cardinality(SeqRange(staging_datums')) = ok_count']_vars

\* the first successful trigger of a staging follows one that failed in
\* save_func, and carries count 1
C15_Witness ==
    /\ op = <<"trigger", "ok">>
    /\ ok_count = 1
    /\ attempts = 2
    /\ staging_datums = <<IdWithCount(1)>>

\* C16: every stage, also one that follows a stage without an unstage in
\* between, mints a uid seen in no earlier document, appends exactly one
\* resource document with that uid to the cache and keeps what the cache
\* held, and restarts the datum count at 0; every datum a trigger appends
\* references the uid of the most recent stage.
C16_StageRestarts ==
    [][/\ op' = <<"stage", "ok">> =>
            /\ resource_uid' # resource_uid
            /\ resource_uid'[2] \notin
                  yielded_resources \cup ResourceUids(asset_docs_cache)
                     \cup {d[2].uid : d \in {x \in discarded : x[1] = "resource"}}
            /\ Len(asset_docs_cache') = Len(asset_docs_cache) + 1
            /\ Prefix(asset_docs_cache', Len(asset_docs_cache)) = asset_docs_cache
            /\ asset_docs_cache'[Len(asset_docs_cache')][1] = "resource"
            /\ LastDoc(asset_docs_cache').uid = resource_uid'[2]
            /\ datum_counter' = PyCount(0)
       /\ op' = <<"trigger", "ok">> =>
            /\ resource_uid' = resource_uid
            /\ LastDoc(asset_docs_cache').resource = resource_uid[2]
            /\ op = <<"stage", "ok">> =>
                  LastDoc(asset_docs_cache').datum_id = IdWithCount(0)]_vars

\* a second stage without an unstage in between: the cache still holds the
\* first staging's resource and datum, and the trigger after it has count 0
C16_Witness ==
    /\ op = <<"trigger", "ok">>
    /\ resource_uid = PyStr(new_uid(2))
    /\ Len(asset_docs_cache) = 4
    /\ asset_docs_cache[1][1] = "resource"
    /\ asset_docs_cache[2] = <<"datum", DatumDoc(new_uid(1), 0, 0)>>
    /\ asset_docs_cache[4] = <<"datum", DatumDoc(new_uid(2), 0, 0)>>

\* C19: unstage leaves the resource uid and the datum counter None, the cache
\* empty and read() empty, and does not change what get_array returns; no
\* document that an unstage dropped from the cache is ever yielded.
C19_UnstageDiscards ==
    /\ [][op' = <<"unstage", "ok">> =>
            /\ resource_uid' = PyNone
            /\ datum_counter' = PyNone
            /\ asset_docs_cache' = <<>>
            /\ read' = {}
            /\ get_array' = get_array]_vars
    /\ [](\A i \in DOMAIN last_yield : last_yield[i] \notin discarded)

\* an unstage dropped a datum document, the array is still there, and a
\* later collection yielded the documents of the next staging
C19_Witness ==
    /\ op = <<"collect", "ok">>
    /\ \E d \in discarded : IsDatum(d)
    /\ Len(last_yield) >= 2
    /\ resource_uid = PyStr(new_uid(2))
    /\ get_array # PyNone

\* C20: a trigger on a signal that is not staged ends in an error, calls
\* save_func not once, appends nothing to the cache and leaves read() empty.
C20_UnstagedTriggerFails ==
    [][(op'[1] = "trigger" /\ resource_uid = PyNone) =>
        /\ op'[2] \in {"type_error", "get_error"}
        /\ save_calls' = <<>>
        /\ asset_docs_cache' = asset_docs_cache
        /\ read' = {}]_vars

\* a trigger after an unstage failed on the missing counter, the array of
\* the staging before is still held
C20_Witness ==
    /\ op = <<"trigger", "type_error">>
    /\ resource_uid = PyNone
    /\ datum_counter = PyNone
    /\ uid_next >= 1
    /\ value # PyNone

\* C17 (as claimed): every component that generate_ophyd_obj creates from a
\* command has the kind 'config' when the command's is_config is true and
\* the kind 'normal' otherwise.
C17_Original ==
    \A k \in DOMAIN components :
        LET c == components[k]
        IN (c.cls # "attribute" /\ c.of_loop_cmd) =>
              c.kind = IF c.cmd_is_config THEN "config" ELSE "normal"

\* ceil(a / b) for a >= 0, b >= 1
CeilDiv(a, b) == (a + b - 1) \div b

\* C18 (as claimed): apply_filter needs step = int(tau*sample_rate) >= 1,
\* drops the first settle = int(5*tau*sample_rate) filtered samples and keeps
\* every step-th one after them, so that the statistic is taken over
\* ceil((N - settle)/step) samples when N > settle and over none otherwise.
C18_Original ==
    (fpc \in {"returned", "raised"} /\ f_out.at # "filtfilt") =>
        LET tau == FromRatio(f_tau[1], f_tau[2])
            settle == FloatInt(FMulInt(FMulInt(tau, tau_settle), f_rate))
            step == FloatInt(FMulInt(tau, f_rate))
        IN /\ f_out.kind = "ok" <=> step >= 1
           /\ f_out.kind = "ok" =>
                 /\ Len(f_out.arr_downsample) =
                       IF f_len > settle THEN CeilDiv(f_len - settle, step) ELSE 0
                 /\ \A j \in DOMAIN f_out.arr_downsample :
                       f_out.arr_downsample[j] = settle + (j - 1) * step
====
